---- MODULE Spec2Model ----
(***************************************************************************)
(* qckm: a tray applet that mirrors a remote time tracker.                 *)
(*                                                                         *)
(* Two variants of the program are modelled, selected by `variant`:        *)
(*   "rebuild"  src/unnamed/part_000  SetupMenu removes every sub-entry    *)
(*              and adds new ones, each with a new listener goroutine;     *)
(*   "fixed"    src/main.go           onReady creates ten recent entries,  *)
(*              one active entry and one Stop entry once, SetupMenu only   *)
(*              relabels them.                                             *)
(*                                                                         *)
(* Every goroutine that is handling something is an element of             *)
(* DOMAIN procs; a listener goroutine blocked on its ClickedCh is not.     *)
(* Steps are the statements between which the Go scheduler may switch      *)
(* goroutines: the globals recentTasks and activeTask are read and written *)
(* without any lock.                                                       *)
(*                                                                         *)
(* The systray library is not part of the repository.  What is assumed of  *)
(* it: RemoveSubMenuItems takes every sub-entry of the group off the       *)
(* menu; an entry that is off the menu cannot be clicked; the entries of a *)
(* disabled group cannot be clicked; a click is handed to the listener by  *)
(* a non-blocking send on ClickedCh, so a click on an entry whose listener *)
(* is busy is dropped.                                                     *)
(***************************************************************************)
EXTENDS Integers, Sequences, FiniteSets, TLC

\* "recent?size=10" and the `i < 10` loops of src/main.go
RECENT_SIZE == 10

\* Bounds of the model: the tasks the service knows (and the longest list it
\* answers the rebuilding variant with), the SetupMenu executions and the
\* clicks on entries that are followed.
MaxLen == 2
MaxSetups == 2
MaxClicks == 1

VARIABLES
    variant,        \* which program runs
    recentTasks,    \* global `recentTasks []Task`
    activeTask,     \* global `activeTask Task`
    recentEntries,  \* sub-entries of the Recent group, in display order
    activeItems,    \* sub-entries of the Active group, in display order
    activeEnabled,  \* whether the Active group is enabled
    procs,          \* goroutines that are handling something -> their locals
    remoteActive,   \* id of the task running on the remote service, 0 if none
    nSetup,         \* SetupMenu executions started so far
    nClicks,        \* clicks on entries handled so far
    panicked,       \* the process died of a run-time panic
    clock           \* what time.Now shows, in seconds from 2024-01-01T00:00Z

vars == <<variant, recentTasks, activeTask, recentEntries, activeItems,
          activeEnabled, procs, remoteActive, nSetup, nClicks, panicked,
          clock>>

----------------------------------------------------------------------------
\* Tasks

TaskIds == 1..MaxLen

ProjectName(k) == IF k % 2 = 1 THEN "alpha" ELSE "beta"

Task(k) == [Id |-> k, Project |-> ProjectName(k), Activity |-> "dev"]

\* `*new(Task)` and `var active Task`: the zero value
ZeroTask == [Id |-> 0, Project |-> "", Activity |-> ""]

TextOutput(t) == "[" \o t.Project \o "] " \o t.Activity

ActiveTaskItem(t, d) == TextOutput(t) \o " (" \o d \o ")"

----------------------------------------------------------------------------
\* Task.TaskDuration (src/unnamed/part_000).  A string is the sequence of its
\* characters; an instant is counted in seconds from 2024-01-01T00:00:00Z,
\* and the instants of the model lie in January 2024.

DigitChars == <<"0", "1", "2", "3", "4", "5", "6", "7", "8", "9">>

IsDigit(c) == \E d \in 1..10 : DigitChars[d] = c

DigitVal(c) == (CHOOSE d \in 1..10 : DigitChars[d] = c) - 1

Num2(s, k) == DigitVal(s[k]) * 10 + DigitVal(s[k + 1])

\* The loop over t.StartTime: every character is written, and ":" after the
\* one at index n - 3, where n is `len(activeTask.StartTime)`
Normalize(s, n) ==
    IF n - 2 \in 1..Len(s)
      THEN SubSeq(s, 1, n - 2) \o <<":">> \o SubSeq(s, n - 1, Len(s))
      ELSE s

\* time.Parse(time.RFC3339, s): "2006-01-02T15:04:05Z07:00", the offset
\* being "Z" or a sign and hh:mm
DateTimeLayout(s) ==
    /\ Len(s) >= 19
    /\ \A k \in {1, 2, 3, 4, 6, 7, 9, 10, 12, 13, 15, 16, 18, 19} :
          IsDigit(s[k])
    /\ s[5] = "-" /\ s[8] = "-" /\ s[11] = "T" /\ s[14] = ":" /\ s[17] = ":"
    /\ Num2(s, 6) \in 1..12 /\ Num2(s, 9) \in 1..31
    /\ Num2(s, 12) <= 23 /\ Num2(s, 15) <= 59 /\ Num2(s, 18) <= 59

OffsetLayout(s) ==
    \/ Len(s) = 20 /\ s[20] = "Z"
    \/ /\ Len(s) = 25
       /\ s[20] \in {"+", "-"} /\ s[23] = ":"
       /\ \A k \in {21, 22, 24, 25} : IsDigit(s[k])
       /\ Num2(s, 21) <= 23 /\ Num2(s, 24) <= 59

OffsetSeconds(s) ==
    IF Len(s) = 20 THEN 0
    ELSE (IF s[20] = "-" THEN -1 ELSE 1)
           * (Num2(s, 21) * 3600 + Num2(s, 24) * 60)

ParseRFC3339(s) ==
    IF DateTimeLayout(s) /\ OffsetLayout(s)
      THEN [ok |-> TRUE,
            secs |-> ((Num2(s, 9) - 1) * 24 + Num2(s, 12)) * 3600
                       + Num2(s, 15) * 60 + Num2(s, 18) - OffsetSeconds(s)]
      ELSE [ok |-> FALSE, secs |-> 0]

\* time.Since of the zero Time, which `taskTime, _ := time.Parse(...)`
\* leaves on a parse error, is the largest Duration: 1<<63 - 1 nanoseconds,
\* that is 153722867 whole minutes and 16 seconds.
MaxDurationMinutes == 153722867

\* `duration := time.Since(taskTime)`, as whole minutes and seconds
Since(taskTime, now) ==
    IF taskTime.ok
      THEN [min |-> (now - taskTime.secs) \div 60,
            sec |-> (now - taskTime.secs) % 60]
      ELSE [min |-> MaxDurationMinutes, sec |-> 16]

\* `int(duration.Seconds() / 3600)` and `int(duration.Seconds() / 60) % 60`
Hours(duration) == duration.min \div 60

Minutes(duration) == duration.min % 60

\* `fmt.Sprintf("%d:%d h", hours, minutes)`
DurationText(hours, minutes) ==
    ToString(hours) \o ":" \o ToString(minutes) \o " h"

\* t.TaskDuration() when the clock shows now; it reads the global
\* activeTask, and drops the error of time.Parse
TaskDuration(t, now) ==
    LET timeString == Normalize(t.StartTime, Len(activeTask.StartTime))
        taskTime == ParseRFC3339(timeString)
        duration == Since(taskTime, now)
    IN DurationText(Hours(duration), Minutes(duration))

\* The start instants the service records, as it writes them:
\* YYYY-MM-DDTHH:MM:SS+ZZZZ
Two(n) == <<DigitChars[(n \div 10) + 1], DigitChars[(n % 10) + 1]>>

Stamp(i) ==
    <<"2", "0", "2", "4", "-", "0", "1", "-">> \o Two(i.day) \o <<"T">>
      \o Two(i.h) \o <<":">> \o Two(i.m) \o <<":">> \o Two(i.s)
      \o <<"+">> \o Two(i.off) \o <<"0", "0">>

Epoch(i) == ((i.day - 1) * 24 + i.h - i.off) * 3600 + i.m * 60 + i.s

Instants ==
    {[day |-> 1, h |-> 10, m |-> 0, s |-> 0, off |-> 0],
     [day |-> 1, h |-> 12, m |-> 29, s |-> 1, off |-> 0],
     [day |-> 1, h |-> 13, m |-> 30, s |-> 0, off |-> 1]}

NoInstant == [day |-> 0, h |-> 0, m |-> 0, s |-> 0, off |-> 0]

\* Start times that are not of that form: none, one without its offset, and
\* a text that is no time
Malformed ==
    {<<>>,
     SubSeq(Stamp([day |-> 1, h |-> 10, m |-> 0, s |-> 0, off |-> 0]), 1, 19),
     <<"n", "o", "w">>}

StartTimes ==
    {[inst |-> i, text |-> Stamp(i)] : i \in Instants}
    \cup {[inst |-> NoInstant, text |-> m] : m \in Malformed}

\* What the clock may show: 2024-01-01T12:30:00Z, 59 seconds later, and
\* 2024-01-02T13:31:00Z
Nows == {45000, 45059, 135060}

\* activeTask.TaskDuration() of SetupMenu when the clock shows now, for an
\* active task the service started at 10:00:00 of the first day (and an
\* activeTask that is not overwritten during the call)
Started == [day |-> 1, h |-> 10, m |-> 0, s |-> 0, off |-> 0]

RunningDuration(now) ==
    LET timeString == Normalize(Stamp(Started), Len(Stamp(Started)))
        duration == Since(ParseRFC3339(timeString), now)
    IN DurationText(Hours(duration), Minutes(duration))

\* The texts it returns as time passes
DurationTexts == {RunningDuration(now) : now \in Nows}

\* Time passes
Tick ==
    /\ \E now \in Nows : now > clock /\ clock' = now
    /\ UNCHANGED <<variant, recentTasks, activeTask, recentEntries,
                   activeItems, activeEnabled, procs, remoteActive, nSetup,
                   nClicks, panicked>>

----------------------------------------------------------------------------
\* The remote service

\* The lists GET recent?size=10 may answer with: the service's tasks from
\* task k on, n of them.
RecentList(k, n) == [i \in 1..n |-> Task(((k + i - 2) % MaxLen) + 1)]

\* The rebuilding variant treats a list of any length alike: it is answered
\* with all the tasks, and with all but the first.  The loops of the
\* fixed-entry variant run to RECENT_SIZE: it is answered with full lists and
\* with a shorter one.
RecentLists ==
    IF variant = "rebuild"
      THEN {RecentList(1, MaxLen), RecentList(2, MaxLen - 1)}
      ELSE {RecentList(1, RECENT_SIZE), RecentList(2, RECENT_SIZE),
            RecentList(2, MaxLen - 1)}

\* Outcomes of client.Do for a PATCH: a transport error, or a response with
\* a status of one of these classes.
HttpOutcomes == {"error", "2xx", "5xx"}

\* `_, err = client.Do(req); if err != nil { return err }; return nil`
ClientDoErr(r) == r = "error"

\* What the service does with PATCH {id}/restart and PATCH {id}/stop when it
\* answers 2xx; any other outcome leaves it as it was.
RemoteAfter(op, id, r) ==
    IF r # "2xx" THEN remoteActive
    ELSE IF op = "RestartTask" THEN id
    ELSE IF remoteActive = id THEN 0 ELSE remoteActive

\* The service answers 2xx only for a task it knows.
Answers(id) == IF id \in TaskIds THEN HttpOutcomes ELSE HttpOutcomes \ {"2xx"}

----------------------------------------------------------------------------
\* Goroutines

Main == [kind |-> "main", gen |-> 0, idx |-> 0]
Refresh == [kind |-> "refresh", gen |-> 0, idx |-> 0]
RecentListener(g, i) == [kind |-> "recent", gen |-> g, idx |-> i]
StopListener(g) == [kind |-> "stop", gen |-> g, idx |-> 0]

\* Locals of a goroutine.  task: the task read on a click; err: what
\* RestartTask/StopTask returned; rerr: whether FetchRecent returned an
\* error, until FetchActive's result takes its place in `err`; active, aerr:
\* the result of FetchActive
\* (aerr is "nil", "error" for a transport or decode error, or
\* "NoActiveTaskErrror"); snap, i: the loop over the recent tasks; gen: the
\* number of the SetupMenu execution it is in.  Two more are kept for the
\* properties and read by no action: shown, the task the clicked entry
\* displayed when it was clicked; n, the SetupMenu executions begun for the
\* click being handled.  For the properties too, aerr is kept after
\* GetMenuState has returned, until the rebuild has tested activeTask; and
\* old holds, during a rebuild, the labels it found on the menu, and whether
\* they had been made of the recentTasks and activeTask it is rebuilding from.
NoOld == [same |-> FALSE, labels |-> <<>>]

Locals(pc) ==
    [pc |-> pc, task |-> ZeroTask, shown |-> ZeroTask, err |-> FALSE,
     active |-> ZeroTask, aerr |-> "nil", snap |-> <<>>, i |-> 0,
     gen |-> 0, n |-> 0, old |-> NoOld, rerr |-> FALSE]

Running == DOMAIN procs

Set(p, l) == [procs EXCEPT ![p] = l]

Spawn(p, l) == [q \in Running \cup {p} |-> IF q = p THEN l ELSE procs[q]]

Exit(p) == [q \in Running \ {p} |-> procs[q]]

\* A goroutine with locals l begins SetupMenu execution number g: it calls
\* GetMenuState, and the request of FetchRecent is out.
EnterSetupMenu(l, g) ==
    [l EXCEPT !.pc = "FetchRecent", !.gen = g, !.n = l.n + 1,
              !.task = ZeroTask, !.shown = ZeroTask]

\* SetupMenu returns: into the handler of a click on an entry, which is then
\* through ("done"); or into the Refresh listener or onReady, which go back
\* to waiting.
Returned(p) ==
    IF p.kind \in {"recent", "stop"}
      THEN Set(p, [procs[p] EXCEPT !.pc = "done", !.old = NoOld])
      ELSE Exit(p)

\* `if activeTask.Id <= 0`
NoActive(t) == t.Id <= 0

Entry(kind, label, task, g, i) ==
    [kind |-> kind, label |-> label, task |-> task, gen |-> g, idx |-> i]

----------------------------------------------------------------------------
\* Initial state: onReady has built the static menu and is about to make its
\* first call of SetupMenu.

InitCommon ==
    /\ recentTasks = <<>>
    /\ activeTask = ZeroTask
    /\ activeEnabled = TRUE
    /\ remoteActive \in 0..MaxLen
    /\ procs = [q \in {Main} |-> EnterSetupMenu(Locals("onReady"), 1)]
    /\ nSetup = 1
    /\ nClicks = 0
    /\ panicked = FALSE
    /\ clock = CHOOSE now \in Nows : \A other \in Nows : now <= other

InitRebuild ==
    /\ InitCommon
    /\ variant = "rebuild"
    /\ recentEntries = <<>>
    /\ activeItems = <<>>

InitFixed ==
    /\ InitCommon
    /\ variant = "fixed"
    /\ recentEntries =
         [i \in 1..RECENT_SIZE |-> Entry("recent", "", ZeroTask, 0, i - 1)]
    /\ activeItems = << Entry("task", "", ZeroTask, 0, 0),
                        Entry("stop", "Stop", ZeroTask, 0, 0) >>

----------------------------------------------------------------------------
\* GetMenuState (the same in both variants)

\* FetchRecent returns (nil, err) on a transport or decode error, else the
\* decoded list, whatever its length.
FetchRecentResults ==
    {[err |-> TRUE, val |-> <<>>]} \cup
    {[err |-> FALSE, val |-> l] : l \in RecentLists}

\* FetchActive returns (zero Task, err) on a transport or decode error,
\* (zero Task, NoActiveTaskErrror) on an empty list, else the first task.
FetchActiveResults ==
    {[err |-> "error", val |-> ZeroTask]} \cup
    {IF remoteActive = 0
        THEN [err |-> "NoActiveTaskErrror", val |-> ZeroTask]
        ELSE [err |-> "nil", val |-> Task(remoteActive)]}

\* `recent, err := FetchRecent(client); if err == nil { recentTasks = recent }`,
\* then the request of FetchActive.  What the service answers depends on no
\* state of the model, so the answer is drawn when it is stored.
\* (StoredRecentCleared is a mutant of StoredRecent: a failed fetch clears
\* the list.)
StoredRecentCleared(r) == IF r.err THEN <<>> ELSE r.val

StoredRecent(r) == IF r.err THEN recentTasks ELSE r.val

GetRecent(p, results) ==
    /\ ~panicked
    /\ procs[p].pc = "FetchRecent"
    /\ \E r \in results :
         /\ recentTasks' = StoredRecent(r)
         /\ procs' = Set(p, [procs[p] EXCEPT !.pc = "FetchActive",
                                              !.rerr = r.err])
    /\ UNCHANGED <<clock, variant, activeTask, recentEntries, activeItems,
                   activeEnabled, remoteActive, nSetup, nClicks, panicked>>

FetchRecent(p) == GetRecent(p, FetchRecentResults)

\* The same, answered by a service that has many tasks: with RECENT_SIZE of
\* them as asked for by "recent?size=10", or with one more.
LongLists == {RecentList(1, RECENT_SIZE), RecentList(1, RECENT_SIZE + 1)}

FetchRecentLong(p) ==
    GetRecent(p, {[err |-> TRUE, val |-> <<>>]} \cup
                 {[err |-> FALSE, val |-> l] : l \in LongLists})

\* `active, err := FetchActive(client)`: the service answers
FetchActive(p) ==
    /\ ~panicked
    /\ procs[p].pc = "FetchActive"
    /\ \E r \in FetchActiveResults :
         procs' = Set(p, [procs[p] EXCEPT !.pc = "StoreActive",
                                          !.rerr = FALSE,
                                          !.active = r.val, !.aerr = r.err])
    /\ UNCHANGED <<clock, variant, recentTasks, activeTask, recentEntries,
                   activeItems, activeEnabled, remoteActive, nSetup, nClicks,
                   panicked>>

\* Mutant of StoredActive: the test inverted
StoredActiveInverted(l) == IF l.aerr = "nil" THEN ZeroTask ELSE l.active

\* `if err == nil { activeTask = active } else { activeTask = *new(Task) }`;
\* GetMenuState returns into SetupMenu
StoredActive(l) == IF l.aerr # "nil" THEN ZeroTask ELSE l.active

StoreActive(p) ==
    /\ ~panicked
    /\ procs[p].pc = "StoreActive"
    /\ activeTask' = StoredActive(procs[p])
    /\ procs' = Set(p, [procs[p] EXCEPT
                          !.pc = IF variant = "rebuild" THEN "RemoveRecent"
                                                        ELSE "SetTitle",
                          !.active = ZeroTask, !.i = 0])
    /\ UNCHANGED <<clock, variant, recentTasks, recentEntries, activeItems,
                   activeEnabled, remoteActive, nSetup, nClicks, panicked>>

----------------------------------------------------------------------------
\* SetupMenu of the rebuilding variant (src/unnamed/part_000)

\* The labels on the menu, in display order: the Recent group, then the
\* Active group
MenuLabels ==
    [k \in 1..Len(recentEntries) |-> recentEntries[k].label]
      \o [k \in 1..Len(activeItems) |-> activeItems[k].label]

\* The menu was made of recentTasks and activeTask as they are now
MadeOfState ==
    /\ [k \in 1..Len(recentEntries) |-> recentEntries[k].task] = recentTasks
    /\ IF NoActive(activeTask)
         THEN activeItems = <<>>
         ELSE /\ Len(activeItems) = 2
              /\ activeItems[1].kind = "task"
              /\ activeItems[1].task = activeTask
              /\ activeItems[2].kind = "stop"

\* Mutant of RemoveRecent: the entries are left on the menu
RemoveRecentSkipped(p) ==
    /\ ~panicked
    /\ procs[p].pc = "RemoveRecent"
    /\ recentEntries' = recentEntries
    /\ procs' = Set(p, [procs[p] EXCEPT
                          !.pc = "RemoveActive",
                          !.old = IF MadeOfState
                                    THEN [same |-> TRUE, labels |-> MenuLabels]
                                    ELSE NoOld])
    /\ UNCHANGED <<clock, variant, recentTasks, activeTask, activeItems,
                   activeEnabled, remoteActive, nSetup, nClicks, panicked>>

\* `recentMenu.RemoveSubMenuItems()`
RemoveRecent(p) ==
    /\ ~panicked
    /\ procs[p].pc = "RemoveRecent"
    /\ recentEntries' = <<>>
    /\ procs' = Set(p, [procs[p] EXCEPT
                          !.pc = "RemoveActive",
                          !.old = IF MadeOfState
                                    THEN [same |-> TRUE, labels |-> MenuLabels]
                                    ELSE NoOld])
    /\ UNCHANGED <<clock, variant, recentTasks, activeTask, activeItems,
                   activeEnabled, remoteActive, nSetup, nClicks, panicked>>

\* `activeMenu.RemoveSubMenuItems()`
RemoveActive(p) ==
    /\ ~panicked
    /\ procs[p].pc = "RemoveActive"
    /\ activeItems' = <<>>
    /\ procs' = Set(p, [procs[p] EXCEPT !.pc = "Range"])
    /\ UNCHANGED <<clock, variant, recentTasks, activeTask, recentEntries,
                   activeEnabled, remoteActive, nSetup, nClicks, panicked>>

\* `for i, task := range recentTasks`: the range expression is evaluated
\* once, the loop runs over that slice
Range(p) ==
    /\ ~panicked
    /\ procs[p].pc = "Range"
    /\ procs' = Set(p, [procs[p] EXCEPT
                          !.pc = IF Len(recentTasks) = 0 THEN "CheckActive"
                                                         ELSE "AddRecent",
                          !.snap = recentTasks, !.i = 0])
    /\ UNCHANGED <<clock, variant, recentTasks, activeTask, recentEntries,
                   activeItems, activeEnabled, remoteActive, nSetup, nClicks,
                   panicked>>

\* One iteration: `recentEntry := recentMenu.AddSubMenuItem(task.TextOutput(),
\* "")` and `go func(idx int) {...}(i)`.  The new listener blocks on the
\* entry's ClickedCh.  (The `i++` at the end of the body changes the
\* iteration's copy only: range assigns i anew.)
AddedRecent(l) ==
    Entry("recent", TextOutput(l.snap[l.i + 1]), l.snap[l.i + 1], l.gen, l.i)

AddRecent(p) ==
    /\ ~panicked
    /\ procs[p].pc = "AddRecent"
    /\ recentEntries' = Append(recentEntries, AddedRecent(procs[p]))
    /\ procs' = Set(p, IF procs[p].i + 1 = Len(procs[p].snap)
                         THEN [procs[p] EXCEPT !.pc = "CheckActive",
                                               !.snap = <<>>, !.i = 0]
                         ELSE [procs[p] EXCEPT !.i = @ + 1])
    /\ UNCHANGED <<clock, variant, recentTasks, activeTask, activeItems,
                   activeEnabled, remoteActive, nSetup, nClicks, panicked>>

\* `activeMenu.AddSubMenuItem(activeTaskItem, "")` with the label made of
\* activeTask as it is now
AddActive(p) ==
    /\ ~panicked
    /\ procs[p].pc = "AddActive"
    /\ activeItems' =
         Append(activeItems,
                Entry("task",
                      ActiveTaskItem(activeTask, RunningDuration(clock)),
                      activeTask, procs[p].gen, 0))
    /\ procs' = Set(p, [procs[p] EXCEPT !.pc = "AddStop"])
    /\ UNCHANGED <<clock, variant, recentTasks, activeTask, recentEntries,
                   activeEnabled, remoteActive, nSetup, nClicks, panicked>>

\* `stopItem := activeMenu.AddSubMenuItem("Stop", "")` and `go func() {...}()`;
\* SetupMenu returns
AddStop(p) ==
    /\ ~panicked
    /\ procs[p].pc = "AddStop"
    /\ activeItems' =
         Append(activeItems, Entry("stop", "Stop", ZeroTask, procs[p].gen, 0))
    /\ procs' = Returned(p)
    /\ UNCHANGED <<clock, variant, recentTasks, activeTask, recentEntries,
                   activeEnabled, remoteActive, nSetup, nClicks, panicked>>

----------------------------------------------------------------------------
\* SetupMenu of the fixed-entry variant (src/main.go)

\* One iteration of `for i < 10`: `task := recentTasks[i]` panics when the
\* list is shorter, else `recentEntries[i].SetTitle(task.TextOutput())`
InRange(i, list) == i < Len(list)

SetTitle(p) ==
    /\ ~panicked
    /\ procs[p].pc = "SetTitle"
    /\ IF InRange(procs[p].i, recentTasks)
         THEN /\ recentEntries' =
                   [recentEntries EXCEPT ![procs[p].i + 1] =
                      Entry("recent", TextOutput(recentTasks[procs[p].i + 1]),
                            recentTasks[procs[p].i + 1], 0, procs[p].i)]
              /\ procs' = Set(p, IF procs[p].i + 1 = RECENT_SIZE
                                   THEN [procs[p] EXCEPT !.pc = "CheckActive",
                                                         !.i = 0]
                                   ELSE [procs[p] EXCEPT !.i = @ + 1])
              /\ UNCHANGED panicked
         ELSE /\ panicked' = TRUE
              /\ UNCHANGED <<recentEntries, procs>>
    /\ UNCHANGED <<clock, variant, recentTasks, activeTask, activeItems,
                   activeEnabled, remoteActive, nSetup, nClicks>>

\* `activeEntry.SetTitle(activeTask.TextOutput())`; SetupMenu returns
SetActiveTitle(p) ==
    /\ ~panicked
    /\ procs[p].pc = "SetActiveTitle"
    /\ activeItems' =
         [activeItems EXCEPT ![1] =
            Entry("task", TextOutput(activeTask), activeTask, 0, 0)]
    /\ procs' = Returned(p)
    /\ UNCHANGED <<clock, variant, recentTasks, activeTask, recentEntries,
                   activeEnabled, remoteActive, nSetup, nClicks, panicked>>

----------------------------------------------------------------------------
\* The Active group (both variants)

CheckActive(p) ==
    /\ ~panicked
    /\ procs[p].pc = "CheckActive"
    /\ procs' = Set(p, [procs[p] EXCEPT
                          !.pc = IF NoActive(activeTask) THEN "Disable"
                                                         ELSE "Enable",
                          !.aerr = "nil"])
    /\ UNCHANGED <<clock, variant, recentTasks, activeTask, recentEntries,
                   activeItems, activeEnabled, remoteActive, nSetup, nClicks,
                   panicked>>

\* `activeMenu.Disable()`; SetupMenu returns
Disable(p) ==
    /\ ~panicked
    /\ procs[p].pc = "Disable"
    /\ activeEnabled' = FALSE
    /\ procs' = Returned(p)
    /\ UNCHANGED <<clock, variant, recentTasks, activeTask, recentEntries,
                   activeItems, remoteActive, nSetup, nClicks, panicked>>

\* `activeMenu.Enable()`
Enable(p) ==
    /\ ~panicked
    /\ procs[p].pc = "Enable"
    /\ activeEnabled' = TRUE
    /\ procs' = Set(p, [procs[p] EXCEPT
                          !.pc = IF variant = "rebuild" THEN "AddActive"
                                                        ELSE "SetActiveTitle"])
    /\ UNCHANGED <<clock, variant, recentTasks, activeTask, recentEntries,
                   activeItems, remoteActive, nSetup, nClicks, panicked>>

----------------------------------------------------------------------------
\* Clicks: the library hands a click to the listener blocked on ClickedCh

\* `case <-refreshAction.ClickedCh: SetupMenu(...)`.  The goroutine exists
\* from the start in the rebuilding variant, and once the first SetupMenu has
\* returned in the fixed-entry variant.
RefreshListening ==
    /\ Refresh \notin Running
    /\ variant = "fixed" => Main \notin Running

ClickRefresh ==
    /\ ~panicked
    /\ RefreshListening
    /\ nSetup < MaxSetups
    /\ procs' = Spawn(Refresh, EnterSetupMenu(Locals("click"), nSetup + 1))
    /\ nSetup' = nSetup + 1
    /\ UNCHANGED <<clock, variant, recentTasks, activeTask, recentEntries,
                   activeItems, activeEnabled, remoteActive, nClicks,
                   panicked>>

\* `case <-recentEntry.ClickedCh:` of the listener of the k-th entry shown
ClickRecent(k) ==
    /\ ~panicked
    /\ k \in 1..Len(recentEntries)
    /\ nClicks < MaxClicks
    /\ LET l == RecentListener(recentEntries[k].gen, recentEntries[k].idx)
       IN /\ l \notin Running
          /\ procs' = Spawn(l, [Locals("ReadTask") EXCEPT
                                   !.shown = recentEntries[k].task])
    /\ nClicks' = nClicks + 1
    /\ UNCHANGED <<clock, variant, recentTasks, activeTask, recentEntries,
                   activeItems, activeEnabled, remoteActive, nSetup,
                   panicked>>

\* The task of the active entry that stands with the Stop entry of rebuild g
ShownActive(g) ==
    LET S == {k \in 1..Len(activeItems) :
                activeItems[k].kind = "task" /\ activeItems[k].gen = g}
    IN IF S = {} THEN ZeroTask ELSE activeItems[CHOOSE k \in S : TRUE].task

\* `case <-stopItem.ClickedCh:` of the listener of the k-th entry of the
\* Active group, a Stop entry
ClickStop(k) ==
    /\ ~panicked
    /\ k \in 1..Len(activeItems)
    /\ activeItems[k].kind = "stop"
    /\ activeEnabled
    /\ nClicks < MaxClicks
    /\ LET l == StopListener(activeItems[k].gen)
       IN /\ l \notin Running
          /\ procs' = Spawn(l, [Locals("ReadActive") EXCEPT
                                   !.shown = ShownActive(activeItems[k].gen)])
    /\ nClicks' = nClicks + 1
    /\ UNCHANGED <<clock, variant, recentTasks, activeTask, recentEntries,
                   activeItems, activeEnabled, remoteActive, nSetup,
                   panicked>>

----------------------------------------------------------------------------
\* The listeners' handlers

\* `task := recentTasks[idx]`: the global as it is now; panics when idx is
\* out of range
ReadTask(p) ==
    /\ ~panicked
    /\ procs[p].pc = "ReadTask"
    /\ IF InRange(p.idx, recentTasks)
         THEN /\ procs' = Set(p, [procs[p] EXCEPT
                                    !.pc = "RestartTask",
                                    !.task = recentTasks[p.idx + 1]])
              /\ UNCHANGED panicked
         ELSE /\ panicked' = TRUE
              /\ UNCHANGED procs
    /\ UNCHANGED <<clock, variant, recentTasks, activeTask, recentEntries,
                   activeItems, activeEnabled, remoteActive, nSetup, nClicks>>

\* The argument `activeTask.Id` of StopTask: the global as it is now
ReadActive(p) ==
    /\ ~panicked
    /\ procs[p].pc = "ReadActive"
    /\ procs' = Set(p, [procs[p] EXCEPT !.pc = "StopTask",
                                        !.task = activeTask])
    /\ UNCHANGED <<clock, variant, recentTasks, activeTask, recentEntries,
                   activeItems, activeEnabled, remoteActive, nSetup, nClicks,
                   panicked>>

\* Mutants of Resync: the test inverted (`err != nil`), and the test left out
ResyncInverted(err) == err

ResyncAlways(err) == TRUE

\* `if err == nil { SetupMenu(...) }` of part_000; main.go drops the result
\* of RestartTask and StopTask and goes back to waiting.
Resync(err) == ~err

CallsSetupMenu(err) == variant = "rebuild" /\ Resync(err)

\* The PATCH is answered with r; the handler goes on.
Patch(p, op, r) ==
    /\ ~panicked
    /\ procs[p].pc = op
    /\ r \in Answers(procs[p].task.Id)
    /\ remoteActive' = RemoteAfter(op, procs[p].task.Id, r)
    /\ IF CallsSetupMenu(ClientDoErr(r))
         THEN /\ nSetup < MaxSetups
              /\ nSetup' = nSetup + 1
              /\ procs' = Set(p, EnterSetupMenu(
                                   [procs[p] EXCEPT !.err = ClientDoErr(r)],
                                   nSetup + 1))
         ELSE /\ UNCHANGED nSetup
              /\ procs' = Set(p, [procs[p] EXCEPT !.pc = "done",
                                                  !.err = ClientDoErr(r)])
    /\ UNCHANGED <<clock, variant, recentTasks, activeTask, recentEntries,
                   activeItems, activeEnabled, nClicks, panicked>>

\* `err := RestartTask(task.Id, client)` and what follows it
RestartTask(p) == \E r \in HttpOutcomes : Patch(p, "RestartTask", r)

\* `err := StopTask(activeTask.Id, client)` and what follows it
StopTask(p) == \E r \in HttpOutcomes : Patch(p, "StopTask", r)

\* The handler is through: `for { select {...} }` blocks on the channel again.
Return(p) ==
    /\ ~panicked
    /\ procs[p].pc = "done"
    /\ procs' = Exit(p)
    /\ UNCHANGED <<clock, variant, recentTasks, activeTask, recentEntries,
                   activeItems, activeEnabled, remoteActive, nSetup, nClicks,
                   panicked>>

----------------------------------------------------------------------------

Listeners ==
    \/ ClickRefresh
    \/ \E k \in 1..Len(recentEntries) : ClickRecent(k)
    \/ \E k \in 1..Len(activeItems) : ClickStop(k)
    \/ \E p \in Running : ReadTask(p)
    \/ \E p \in Running : ReadActive(p)
    \/ \E p \in Running : RestartTask(p)
    \/ \E p \in Running : StopTask(p)
    \/ \E p \in Running : Return(p)

\* src/unnamed/part_000
NextRebuild ==
    \/ Listeners
    \/ Tick
    \/ \E p \in Running : FetchRecent(p)
    \/ \E p \in Running : FetchActive(p)
    \/ \E p \in Running : StoreActive(p)
    \/ \E p \in Running : RemoveRecent(p)
    \/ \E p \in Running : RemoveActive(p)
    \/ \E p \in Running : Range(p)
    \/ \E p \in Running : AddRecent(p)
    \/ \E p \in Running : CheckActive(p)
    \/ \E p \in Running : Disable(p)
    \/ \E p \in Running : Enable(p)
    \/ \E p \in Running : AddActive(p)
    \/ \E p \in Running : AddStop(p)

\* src/main.go
NextFixed ==
    \/ Listeners
    \/ \E p \in Running : FetchRecent(p)
    \/ \E p \in Running : FetchActive(p)
    \/ \E p \in Running : StoreActive(p)
    \/ \E p \in Running : SetTitle(p)
    \/ \E p \in Running : CheckActive(p)
    \/ \E p \in Running : Disable(p)
    \/ \E p \in Running : Enable(p)
    \/ \E p \in Running : SetActiveTitle(p)

\* The rebuilding variant
Spec == InitRebuild /\ [][NextRebuild]_vars

\* The fixed-entry variant
SpecFixed == InitFixed /\ [][NextFixed]_vars

----------------------------------------------------------------------------
\* A call of Task.TaskDuration on its own

StartedTask(k, text) ==
    [Id |-> k, Project |-> ProjectName(k), Activity |-> "dev",
     StartTime |-> text]

\* A goroutine is about to call t.TaskDuration() for a task t, with some
\* task in the global activeTask.  inst is kept for the properties: the
\* instant t.StartTime was written from.
InitDuration ==
    /\ variant = "rebuild"
    /\ recentTasks = <<>>
    /\ \E a \in StartTimes : activeTask = StartedTask(1, a.text)
    /\ recentEntries = <<>>
    /\ activeItems = <<>>
    /\ activeEnabled = TRUE
    /\ \E st \in StartTimes :
          procs = [q \in {Main} |->
                     [pc |-> "TaskDuration", t |-> StartedTask(1, st.text),
                      inst |-> st.inst, ret |-> ""]]
    /\ remoteActive = 1
    /\ nSetup = 0
    /\ nClicks = 0
    /\ panicked = FALSE
    /\ clock \in Nows

CallTaskDuration(p) ==
    /\ procs[p].pc = "TaskDuration"
    /\ procs' = Set(p, [procs[p] EXCEPT
                          !.pc = "returned",
                          !.ret = TaskDuration(procs[p].t, clock)])
    /\ UNCHANGED <<clock, variant, recentTasks, activeTask, recentEntries,
                   activeItems, activeEnabled, remoteActive, nSetup, nClicks,
                   panicked>>

NextDuration == \E p \in Running : CallTaskDuration(p)

SpecDuration == InitDuration /\ [][NextDuration]_vars

----------------------------------------------------------------------------
\* Vocabulary of the properties

GetMenuStatePcs == {"FetchRecent", "FetchActive", "StoreActive"}

RenderPcs == {"RemoveRecent", "RemoveActive", "Range", "AddRecent", "SetTitle",
              "CheckActive", "Disable", "Enable", "AddActive", "AddStop",
              "SetActiveTitle"}

InGetMenuState(p) == procs[p].pc \in GetMenuStatePcs

InRender(p) == procs[p].pc \in RenderPcs

InSetupMenu(p) == InGetMenuState(p) \/ InRender(p)

\* The goroutines that handle a click on an entry
Handlers == {p \in Running : p.kind \in {"recent", "stop"}}

\* The entry of listener p is on the menu
OnMenu(p) ==
    IF p.kind = "recent"
      THEN \E k \in 1..Len(recentEntries) :
              recentEntries[k].gen = p.gen /\ recentEntries[k].idx = p.idx
      ELSE \E k \in 1..Len(activeItems) :
              activeItems[k].kind = "stop" /\ activeItems[k].gen = p.gen

\* Listener p is superseded: a SetupMenu execution has taken its entry off the
\* menu and has returned, its own entries installed.  (p is not in SetupMenu
\* where this is used, so the execution is another goroutine's.)
Superseded(p) == ~OnMenu(p) /\ \A q \in Running : ~InRender(q)

\* Nothing is being handled, and the first SetupMenu has returned
Quiescent == Running = {} /\ ~panicked

StopEntries == {k \in 1..Len(activeItems) : activeItems[k].kind = "stop"}

----------------------------------------------------------------------------
\* The rebuilding variant with a service that has many tasks.  Of its
\* behaviours those are followed in which the user clicks, and a PATCH is
\* answered, only while no SetupMenu execution is in progress.

NoSetupMenu == \A q \in Running : ~InSetupMenu(q)

NextLong ==
    \/ Tick
    \/ NoSetupMenu /\ ClickRefresh
    \/ \E k \in 1..Len(recentEntries) : NoSetupMenu /\ ClickRecent(k)
    \/ \E k \in 1..Len(activeItems) : NoSetupMenu /\ ClickStop(k)
    \/ \E p \in Running : ReadTask(p)
    \/ \E p \in Running : ReadActive(p)
    \/ \E p \in Running : NoSetupMenu /\ RestartTask(p)
    \/ \E p \in Running : NoSetupMenu /\ StopTask(p)
    \/ \E p \in Running : Return(p)
    \/ \E p \in Running : FetchRecentLong(p)
    \/ \E p \in Running : FetchActive(p)
    \/ \E p \in Running : StoreActive(p)
    \/ \E p \in Running : RemoveRecent(p)
    \/ \E p \in Running : RemoveActive(p)
    \/ \E p \in Running : Range(p)
    \/ \E p \in Running : AddRecent(p)
    \/ \E p \in Running : CheckActive(p)
    \/ \E p \in Running : Disable(p)
    \/ \E p \in Running : Enable(p)
    \/ \E p \in Running : AddActive(p)
    \/ \E p \in Running : AddStop(p)

SpecLong == InitRebuild /\ [][NextLong]_vars

----------------------------------------------------------------------------
\* The rebuilding variant from the state a first SetupMenu leaves when both
\* its fetches succeeded and nothing ran beside it: the menu shows the
\* service's tasks and its active task.  (Its entries bear the number 0;
\* nSetup counts the SetupMenu executions from here on.)  Of the behaviours
\* from there those are followed in which every fetch succeeds and every
\* PATCH is answered 2xx.

InitRendered ==
    /\ variant = "rebuild"
    /\ clock = CHOOSE now \in Nows : \A other \in Nows : now <= other
    /\ remoteActive \in 0..MaxLen
    /\ recentTasks = RecentList(1, MaxLen)
    /\ activeTask = StoredActive([aerr |-> IF remoteActive = 0
                                             THEN "NoActiveTaskErrror"
                                             ELSE "nil",
                                  active |-> IF remoteActive = 0
                                               THEN ZeroTask
                                               ELSE Task(remoteActive)])
    /\ recentEntries =
         [k \in 1..MaxLen |->
            Entry("recent", TextOutput(RecentList(1, MaxLen)[k]),
                  RecentList(1, MaxLen)[k], 0, k - 1)]
    /\ activeItems =
         IF remoteActive = 0 THEN <<>>
         ELSE << Entry("task",
                       ActiveTaskItem(Task(remoteActive),
                                      RunningDuration(clock)),
                       Task(remoteActive), 0, 0),
                 Entry("stop", "Stop", ZeroTask, 0, 0) >>
    /\ activeEnabled = (remoteActive # 0)
    /\ procs = [q \in {} |-> Locals("")]
    /\ nSetup = 0
    /\ nClicks = 0
    /\ panicked = FALSE

FetchRecentOk(p) ==
    GetRecent(p, {r \in FetchRecentResults : ~r.err})

FetchActiveOk(p) ==
    FetchActive(p) /\ procs'[p].aerr # "error"

NextRace ==
    \/ ClickRefresh
    \/ \E k \in 1..Len(recentEntries) : ClickRecent(k)
    \/ \E k \in 1..Len(activeItems) : ClickStop(k)
    \/ \E p \in Running : ReadTask(p)
    \/ \E p \in Running : ReadActive(p)
    \/ \E p \in Running : Patch(p, "RestartTask", "2xx")
    \/ \E p \in Running : Patch(p, "StopTask", "2xx")
    \/ \E p \in Running : Return(p)
    \/ \E p \in Running : FetchRecentOk(p)
    \/ \E p \in Running : FetchActiveOk(p)
    \/ \E p \in Running : StoreActive(p)
    \/ \E p \in Running : RemoveRecent(p)
    \/ \E p \in Running : RemoveActive(p)
    \/ \E p \in Running : Range(p)
    \/ \E p \in Running : AddRecent(p)
    \/ \E p \in Running : CheckActive(p)
    \/ \E p \in Running : Disable(p)
    \/ \E p \in Running : Enable(p)
    \/ \E p \in Running : AddActive(p)
    \/ \E p \in Running : AddStop(p)

SpecRace == InitRendered /\ [][NextRace]_vars

----------------------------------------------------------------------------
\* C1.  Rebuilding variant: a listener installed by a SetupMenu execution
\* never calls RestartTask or StopTask once a later SetupMenu execution has
\* replaced its entries by its own.
C1_OnlyCurrentListenersDispatch ==
    [][\A p \in Handlers :
         (RestartTask(p) \/ StopTask(p)) => ~Superseded(p)]_vars

\* C2.  A click on a recent entry calls RestartTask with the id of the task
\* the entry displayed, never with that of another task a later GetMenuState
\* has put at the same index of recentTasks.
C2_RestartsDisplayedTask ==
    \A p \in Handlers :
        procs[p].pc = "RestartTask" => procs[p].task.Id = procs[p].shown.Id

\* C3.  Rebuilding variant: a handled click whose RestartTask/StopTask
\* returned nil is followed by exactly one SetupMenu execution of its
\* handler, one whose call returned an error by none.
C3_OneResyncPerSuccess ==
    \A p \in Handlers :
        /\ procs[p].n <= 1
        /\ InSetupMenu(p) => ~procs[p].err /\ procs[p].n = 1
        /\ procs[p].pc = "done" => procs[p].n = (IF procs[p].err THEN 0 ELSE 1)

\* a handler is through with a click whose action succeeded, after its one
\* SetupMenu
C3_Witness ==
    \E p \in Handlers :
        procs[p].pc = "done" /\ ~procs[p].err /\ procs[p].n = 1

\* C4.  Fixed-entry variant: a click whose remote call succeeded is followed
\* by a SetupMenu execution (GetMenuState and relabelling) of its handler.
C4_FixedResyncsOnSuccess ==
    [][\A p \in Handlers : \A op \in {"RestartTask", "StopTask"} :
         Patch(p, op, "2xx") => InSetupMenu(p)']_vars

\* C5.  RestartTask and StopTask return nil only when the PATCH was answered
\* with a 2xx status; on any other answer they return an error and no
\* SetupMenu follows.
C5_SuccessOnly2xx ==
    [][\A p \in Handlers : \A op \in {"RestartTask", "StopTask"} :
         \A r \in HttpOutcomes \ {"2xx"} :
            Patch(p, op, r) => procs'[p].err /\ ~InSetupMenu(p)']_vars

\* C6.  When RestartTask or StopTask returns an error the handler changes
\* neither recentTasks, activeTask, the entries, their labels nor the state
\* of the Active group, and makes no further remote call: the failing call
\* changes none of them, and all the handler then does is go back to waiting.
Displayed == <<recentTasks, activeTask, recentEntries, activeItems,
               activeEnabled>>

C6_FailureLeavesStateUntouched ==
    /\ [](\A p \in Handlers : procs[p].err => procs[p].pc = "done")
    /\ [][\A p \in Handlers :
            /\ procs[p].pc \in {"ReadTask", "ReadActive"}
                 /\ procs'[p] # procs[p]
                 => UNCHANGED <<Displayed, nSetup, remoteActive>>
            /\ (RestartTask(p) \/ StopTask(p)) /\ procs'[p].err
                 => UNCHANGED <<Displayed, nSetup>>
            /\ procs[p].err /\ (p \notin Running' \/ procs'[p] # procs[p])
                 => /\ UNCHANGED <<Displayed, nSetup, remoteActive>>
                    /\ p \notin Running']_vars

\* a handler whose call failed is about to go back to waiting, in a menu
\* that shows entries
C6_Witness ==
    \E p \in Handlers :
        procs[p].pc = "done" /\ procs[p].err /\ Len(recentEntries) > 0

\* C7.  At no time are two SetupMenu executions in progress, and no render
\* loop runs while another goroutine is in GetMenuState.
C7_SetupMenuSerialized ==
    /\ Cardinality({p \in Running : InSetupMenu(p)}) <= 1
    /\ \A p, q \in Running :
          p # q => ~(InRender(p) /\ InGetMenuState(q))

\* C8.  Rebuilding variant: whenever a SetupMenu has returned and nothing is
\* being handled, the Recent group holds exactly Len(recentTasks) entries,
\* the i-th labelled "[<project>] <activity>" of recentTasks[i].
C8_RecentEntriesMatchState ==
    Quiescent =>
        /\ Len(recentEntries) = Len(recentTasks)
        /\ Len(recentEntries) <= RECENT_SIZE
        /\ \A i \in 1..Len(recentEntries) :
              i <= Len(recentTasks) =>
                 recentEntries[i].label = TextOutput(recentTasks[i])

\* C9.  After a completed rebuild: without an active task the Active group is
\* disabled and holds no Stop entry; with one it is enabled and holds exactly
\* one Stop entry, and a click on it calls StopTask with the id of that task.
C9_ActiveGroupMatchesState ==
    /\ Quiescent =>
          IF NoActive(activeTask)
            THEN ~activeEnabled /\ StopEntries = {}
            ELSE activeEnabled /\ Cardinality(StopEntries) = 1
    /\ \A p \in Handlers :
          procs[p].pc = "StopTask" /\ ~NoActive(procs[p].shown)
             => procs[p].task.Id = procs[p].shown.Id

\* C10.  Whatever the two fetches return, SetupMenu and every click listener
\* run without an index-out-of-range panic on recentTasks.
C10_NoPanic == ~panicked

----------------------------------------------------------------------------
\* C11.  GetMenuState treats the two fetches independently and always
\* completes: whatever FetchRecent returned, FetchActive is called next and
\* its task, when it returned one, is stored in activeTask; whatever
\* FetchActive returned, recentTasks keeps what FetchRecent stored; and the
\* execution goes on into the rebuild of SetupMenu, without a panic.
C11_FetchesIndependent ==
    [][\A p \in Running :
         /\ procs[p].pc = "FetchRecent" /\ procs'[p] # procs[p]
              => /\ procs'[p].pc = "FetchActive"
                 /\ UNCHANGED <<activeTask, panicked>>
         /\ procs[p].pc = "FetchActive" /\ procs'[p] # procs[p]
              => /\ procs'[p].pc = "StoreActive"
                 /\ UNCHANGED <<recentTasks, activeTask, panicked>>
         /\ procs[p].pc = "StoreActive" /\ procs'[p] # procs[p]
              => /\ activeTask' = IF procs[p].aerr = "nil"
                                    THEN procs[p].active ELSE ZeroTask
                 /\ InRender(p)'
                 /\ UNCHANGED <<recentTasks, panicked>>]_vars

\* the first GetMenuState has returned: FetchRecent failed (recentTasks is
\* still empty) and the task FetchActive returned is stored
C11_Witness ==
    /\ nSetup = 1
    /\ Main \in Running
    /\ procs[Main].pc = "RemoveRecent"
    /\ recentTasks = <<>>
    /\ procs[Main].aerr = "nil"
    /\ activeTask = Task(remoteActive)

\* C12.  When /active answers with an empty list, FetchActive returns the
\* zero Task with NoActiveTaskErrror, GetMenuState goes on into the rebuild
\* (no error reaches SetupMenu), and the rebuild of that SetupMenu execution
\* finds no active task, so that it disables the Active group.
C12_EmptyActiveDisablesGroup ==
    \A p \in Running :
        procs[p].aerr = "NoActiveTaskErrror" =>
            /\ procs[p].active = ZeroTask
            /\ procs[p].pc = "StoreActive" \/ InRender(p)
            /\ procs[p].pc = "CheckActive" => NoActive(activeTask)

\* The listener goroutines that can dispatch an action: those of the entries
\* on the menu, and those that are handling a click
RecentListenersAble ==
    {RecentListener(recentEntries[k].gen, recentEntries[k].idx) :
        k \in 1..Len(recentEntries)}
    \cup {p \in Running : p.kind = "recent"}

StopListenersAble ==
    {StopListener(activeItems[k].gen) : k \in StopEntries}
    \cup {p \in Running : p.kind = "stop"}

\* C13.  Rebuilding variant: at any time at most RECENT_SIZE listeners of
\* recent entries and one Stop listener can dispatch an action; with the
\* Refresh listener that is at most RECENT_SIZE + 2 = 12.
C13_ListenersBounded ==
    /\ Cardinality(RecentListenersAble) <= RECENT_SIZE
    /\ Cardinality(StopListenersAble) <= 1
    /\ Cardinality(RecentListenersAble) + Cardinality(StopListenersAble) + 1
          <= RECENT_SIZE + 2

\* C14.  In every reachable state recentTasks holds at most RECENT_SIZE
\* tasks, whatever list /recent answered with, and the Recent group holds at
\* most RECENT_SIZE entries.
C14_AtMostTenRecent ==
    /\ Len(recentTasks) <= RECENT_SIZE
    /\ Len(recentEntries) <= RECENT_SIZE

\* The text for E elapsed seconds: "<h>:<m> h", h = floor(E / 3600),
\* m = floor(E / 60) mod 60, neither zero-padded
ExpectedText(E) ==
    ToString(E \div 3600) \o ":" \o ToString((E \div 60) % 60) \o " h"

\* C15.  For a start instant written as YYYY-MM-DDTHH:MM:SS+ZZZZ,
\* TaskDuration returns the text for the seconds elapsed since that instant,
\* whatever the global activeTask holds.
C15_DurationOfOwnStart ==
    \A p \in Running :
        procs[p].pc = "returned" /\ procs[p].inst # NoInstant
           => procs[p].ret = ExpectedText(clock - Epoch(procs[p].inst))

\* C16.  For a start time that is empty or cannot be parsed, TaskDuration
\* returns (so that the rebuild goes on) a text that is not the duration
\* computed from the zero Time the failed parse leaves.
C16_SentinelOnMalformed ==
    /\ ~panicked
    /\ \A p \in Running :
          procs[p].pc = "returned" /\ procs[p].inst = NoInstant
             => procs[p].ret #
                  DurationText(Hours(Since([ok |-> FALSE, secs |-> 0], 0)),
                               Minutes(Since([ok |-> FALSE, secs |-> 0], 0)))

\* The step with which the rebuild of SetupMenu execution p is complete
RebuildDone(p) == variant = "rebuild" /\ (AddStop(p) \/ Disable(p))

\* The labels an active entry of the task may bear
ActiveLabels(t) == {ActiveTaskItem(t, d) : d \in DurationTexts}

\* C17.  A rebuild that finds on the menu the entries made of the very
\* recentTasks and activeTask it rebuilds from leaves the same number of
\* entries with the same labels in the same order, the duration text of the
\* active entry included.
C17_RebuildIdempotent ==
    [][\A p \in Running :
         RebuildDone(p) /\ procs[p].old.same
            => MenuLabels' = procs[p].old.labels]_vars

\* C17 as amended: the same, but for the duration text of the active entry,
\* which is that of the moment of each rebuild; and every entry on the menu
\* is one the second rebuild added.
C17_RebuildIdempotentButDuration ==
    [][\A p \in Running :
         RebuildDone(p) /\ procs[p].old.same
            => /\ Len(MenuLabels') = Len(procs[p].old.labels)
               /\ \A k \in 1..Len(procs[p].old.labels) :
                     \/ MenuLabels'[k] = procs[p].old.labels[k]
                     \/ /\ k = Len(recentEntries') + 1
                        /\ MenuLabels'[k] \in ActiveLabels(activeTask)
                        /\ procs[p].old.labels[k] \in ActiveLabels(activeTask)
               /\ \A k \in 1..Len(recentEntries') :
                     recentEntries'[k].gen = procs[p].gen
               /\ \A k \in 1..Len(activeItems') :
                     activeItems'[k].gen = procs[p].gen]_vars

\* a second rebuild over the same state is about to add its last entry, the
\* first having left recent entries, an active entry and Stop
C17_Witness ==
    \E p \in Running :
        /\ procs[p].pc = "AddStop"
        /\ procs[p].gen > 1
        /\ procs[p].old.same
        /\ Len(procs[p].old.labels) = Len(recentTasks) + 2
        /\ Len(recentTasks) > 0

\* C18.  When FetchRecent returns an error, GetMenuState leaves recentTasks
\* as it was before the call, on the first pass (where it is empty) as on
\* every later one; when it returns a list, that list is stored.
C18_FailedRecentPreserved ==
    [][\A p \in Running :
         procs[p].pc = "FetchRecent" /\ procs'[p] # procs[p]
            => IF procs'[p].rerr
                 THEN recentTasks' = recentTasks
                 ELSE recentTasks' \in RecentLists]_vars

\* on a pass that is not the first, FetchRecent has just failed and the list
\* of the pass before is still there
C18_Witness ==
    \E p \in Running :
        /\ procs[p].pc = "FetchActive"
        /\ procs[p].rerr
        /\ procs[p].gen > 1
        /\ recentTasks # <<>>

\* C19.  StopTask is never called with an id <= 0: whatever a concurrent
\* GetMenuState does to activeTask, the id of the stop request is that of
\* the task that was active when the clicked Stop entry was rendered.
C19_StopsRenderedTask ==
    \A p \in Handlers :
        procs[p].pc = "StopTask"
           => /\ procs[p].task.Id > 0
              /\ procs[p].task.Id = procs[p].shown.Id

\* C20.  Rebuilding variant, every fetch succeeding: when the click on an
\* entry has been handled, its RestartTask or StopTask having succeeded, and
\* nothing is in progress any more, activeTask is the task running on the
\* service and the Active group shows it (or is disabled when none runs),
\* also when the SetupMenu of a Refresh click overlapped with the handler's.
C20_ConsistentAfterAction ==
    Quiescent /\ nClicks > 0 =>
        /\ activeTask.Id = remoteActive
        /\ activeEnabled = (remoteActive # 0)
        /\ remoteActive # 0 =>
              \E k \in 1..Len(activeItems) :
                 activeItems[k].kind = "task"
                   /\ activeItems[k].task.Id = remoteActive

====
